---- MODULE Spec2Model ----
(***************************************************************************)
(* The lending engine of src/1.py (class LibrarySystem) over its SQLite    *)
(* store.                                                                  *)
(*                                                                         *)
(* db is the committed content of the database file, tx is what the        *)
(* engine's connection sees (db plus the writes of a transaction that has  *)
(* not been committed or rolled back yet).  The cache is the engine's      *)
(* Python object graph: books, users, loans and authors are the lists      *)
(* _books, _users, _loans, _authors; Book and User objects live in the     *)
(* heaps bookObj and userObj because the code shares and mutates them by   *)
(* reference (a Loan keeps the Book and User objects it was built with).   *)
(* Only equality of references is observable, so after every operation     *)
(* the references are renumbered densely in traversal order and objects    *)
(* nothing refers to are dropped (Canon).                                  *)
(*                                                                         *)
(* An optional value (None or v) is the sequence <<>> or <<v>>.            *)
(*                                                                         *)
(* librarians is the list _librarians and ret the value the last query     *)
(* returned.  person and aLoan are a Person (User or Librarian) and a      *)
(* Loan that live outside any engine, aBook is such a Book, wallClock is   *)
(* datetime.now() in seconds as Loan.is_overdue reads it: the entity       *)
(* classes are specified on their own.                                     *)
(***************************************************************************)
EXTENDS Integers, Sequences, FiniteSets, TLC

VARIABLES db, tx, books, users, loans, authors, bookObj, userObj, clock, steps, last,
          librarians, ret, person, aLoan, aBook, wallClock

vars == <<db, tx, books, users, loans, authors, bookObj, userObj, clock, steps, last,
          librarians, ret, person, aLoan, aBook, wallClock>>

(* ---------------------------- bounds ----------------------------------- *)
MaxOps == 4             \* Spec: number of engine calls in one run
MaxBorrowerBooks == 4   \* SpecBorrower: add_book is called while fewer books were ever added
MaxBorrowerLoans == 4   \* SpecBorrower: issue_book may succeed while fewer loans were ever issued
MaxSlack == 3           \* SpecOverdue: seconds looked at before and after the due date
MaxIssue == 1           \* SpecOverdue: latest issue date, in seconds
MaxStaffOps == 3        \* SpecStaff: calls made at the staff desk
MaxFaultOps == 3        \* SpecFaulty: calls made on an engine whose store may fail
MaxYear == 10           \* SpecBook: largest year given to a Book
MaxTokens == 2          \* SpecPerson: Book objects a Person is handed

(* ------------------------- program constants --------------------------- *)
MAX_BOOKS == 3
MAX_BOOKS_LIBRARIAN == 5
LOAN_DAYS == 14
SecondsPerDay == 86400
Available == "available"
OnLoan == "on-loan"

TolstoyName == "Tolstoy"
DostoevskyName == "Dostoevsky"

(* ------------------------------ helpers -------------------------------- *)
\* the elements of a finite set of integers in ascending order (rowid order)
IdSeq(S) == [i \in 1..Cardinality(S) |->
               CHOOSE x \in S : Cardinality({y \in S : y < x}) = i - 1]

Range(s) == {s[i] : i \in 1..Len(s)}

\* index of the first element of s that satisfies P, 0 when there is none:
\* next((x for x in s if P(x)), None)
FirstIdx(s, P(_)) ==
  LET I == {i \in 1..Len(s) : P(s[i])}
  IN IF I = {} THEN 0 ELSE CHOOSE i \in I : \A j \in I : i <= j

RECURSIVE Flatten(_)
Flatten(ss) == IF ss = <<>> THEN <<>> ELSE Head(ss) \o Flatten(Tail(ss))

(* ------------------------------ the store ------------------------------ *)
\* a table is a function from the ids of its rows to the rows; seq is
\* sqlite_sequence, the highest id AUTOINCREMENT has handed out per table
EmptyStore ==
  [authors |-> <<>>, books |-> <<>>, users |-> <<>>, loans |-> <<>>, librarians |-> <<>>,
   seq |-> [authors |-> 0, books |-> 0, users |-> 0, loans |-> 0]]

Put(f, k, v) == [x \in (DOMAIN f) \cup {k} |-> IF x = k THEN v ELSE f[x]]
Del(f, k) == [x \in (DOMAIN f) \ {k} |-> f[x]]

InsertAuthor(t, name, bio) ==
  LET id == t.seq.authors + 1
  IN [t EXCEPT !.authors = Put(t.authors, id, [id |-> id, name |-> name, bio |-> bio]),
               !.seq.authors = id]

\* an insert into a books table without AUTOINCREMENT: the id is one more
\* than the largest id in the table
InsertBookMaxRowid(t, title, author_id, year, status) ==
  LET id == IF DOMAIN t.books = {} THEN 1
            ELSE 1 + CHOOSE m \in DOMAIN t.books : \A x \in DOMAIN t.books : x <= m
  IN [t EXCEPT !.books = Put(t.books, id, [id |-> id, title |-> title, author_id |-> author_id,
                                           year |-> year, status |-> status]),
               !.seq.books = id]

InsertBook(t, title, author_id, year, status) ==
  LET id == t.seq.books + 1
  IN [t EXCEPT !.books = Put(t.books, id, [id |-> id, title |-> title, author_id |-> author_id,
                                           year |-> year, status |-> status]),
               !.seq.books = id]

InsertUser(t, name) ==
  LET id == t.seq.users + 1
  IN [t EXCEPT !.users = Put(t.users, id, [id |-> id, name |-> name]),
               !.seq.users = id]

InsertLoan(t, book_id, user_id, issue_date) ==
  LET id == t.seq.loans + 1
  IN [t EXCEPT !.loans = Put(t.loans, id, [id |-> id, book_id |-> book_id, user_id |-> user_id,
                                           issue_date |-> issue_date, return_date |-> <<>>]),
               !.seq.loans = id]

\* a status update that is lost
UpdateBookStatusLost(t, book_id, status) == t

\* UPDATE books SET col=? WHERE id=?  (no row, no change)
UpdateBookTitle(t, book_id, title) ==
  IF book_id \in DOMAIN t.books THEN [t EXCEPT !.books[book_id].title = title] ELSE t
UpdateBookYear(t, book_id, year) ==
  IF book_id \in DOMAIN t.books THEN [t EXCEPT !.books[book_id].year = year] ELSE t
UpdateBookStatus(t, book_id, status) ==
  IF book_id \in DOMAIN t.books THEN [t EXCEPT !.books[book_id].status = status] ELSE t
\* UPDATE authors SET bio=? WHERE id=(SELECT author_id FROM books WHERE id=?)
UpdateAuthorBioOfBook(t, book_id, bio) ==
  IF book_id \in DOMAIN t.books /\ t.books[book_id].author_id \in DOMAIN t.authors
  THEN [t EXCEPT !.authors[t.books[book_id].author_id].bio = bio] ELSE t
UpdateUserName(t, user_id, name) ==
  IF user_id \in DOMAIN t.users THEN [t EXCEPT !.users[user_id].name = name] ELSE t
UpdateLoanReturn(t, loan_id, date) ==
  IF loan_id \in DOMAIN t.loans THEN [t EXCEPT !.loans[loan_id].return_date = <<date>>] ELSE t

(* --------------------- loading the object graph ------------------------ *)
\* datetime.isoformat() and datetime.fromisoformat(); a datetime is a count
\* of microseconds, the text carries the seconds and the microseconds
IsoFormat(d) == [sec |-> d \div 1000000, usec |-> d % 1000000]
FromIsoFormatSeconds(s) == s.sec * 1000000
FromIsoFormat(s) == s.sec * 1000000 + s.usec

\* _load_librarians: SELECT id, name, access_level FROM librarians
LoadLibrarians(t) ==
  [i \in 1..Cardinality(DOMAIN t.librarians) |-> t.librarians[IdSeq(DOMAIN t.librarians)[i]]]

\* _load_authors: SELECT id, name, bio FROM authors
LoadAuthors(t) == [i \in 1..Cardinality(DOMAIN t.authors) |-> t.authors[IdSeq(DOMAIN t.authors)[i]]]

\* _get_author_by_id: a new Author, or None
GetAuthorById(t, author_id) ==
  IF author_id \in DOMAIN t.authors THEN <<t.authors[author_id]>> ELSE <<>>

\* the Book built from a books row whose author resolves
BookOfRow(t, row) ==
  [id |-> row.id, title |-> row.title, author |-> GetAuthorById(t, row.author_id)[1],
   year |-> row.year, status |-> row.status]

\* _get_book_by_id: a new Book, or None (also None when the author is missing)
GetBookById(t, book_id) ==
  IF book_id \in DOMAIN t.books /\ GetAuthorById(t, t.books[book_id].author_id) # <<>>
  THEN <<BookOfRow(t, t.books[book_id])>> ELSE <<>>

\* _get_user_by_id: a new User with an empty borrowed list, or None
GetUserById(t, user_id) ==
  IF user_id \in DOMAIN t.users
  THEN <<[id |-> user_id, name |-> t.users[user_id].name, borrowed |-> <<>>]>> ELSE <<>>

\* _load_books: new Book objects, rows without an author are skipped
LoadBooks(t) ==
  LET ids == IdSeq({b \in DOMAIN t.books : GetAuthorById(t, t.books[b].author_id) # <<>>})
  IN [i \in 1..Len(ids) |-> BookOfRow(t, t.books[ids[i]])]

\* _load_users: new User objects, every borrowed list empty
LoadUsers(t) ==
  LET ids == IdSeq(DOMAIN t.users)
  IN [i \in 1..Len(ids) |-> GetUserById(t, ids[i])[1]]

\* a load that also drops the loans that have a return date
LoadableLoanIdsOpenOnly(t) ==
  IdSeq({l \in DOMAIN t.loans : /\ GetBookById(t, t.loans[l].book_id) # <<>>
                                /\ GetUserById(t, t.loans[l].user_id) # <<>>
                                /\ t.loans[l].return_date = <<>>})

\* the ids of the loan rows _load_loans keeps: book and user both resolve
LoadableLoanIds(t) ==
  IdSeq({l \in DOMAIN t.loans : /\ GetBookById(t, t.loans[l].book_id) # <<>>
                                /\ GetUserById(t, t.loans[l].user_id) # <<>>})

(* -------------------------- the engine's cache ------------------------- *)
\* replace _books by freshly loaded objects (self._books = self._load_books())
ReloadBooks(c, t) ==
  LET new == LoadBooks(t)
  IN [c EXCEPT !.bookObj = c.bookObj \o new,
               !.books = [i \in 1..Len(new) |-> Len(c.bookObj) + i]]

ReloadUsers(c, t) ==
  LET new == LoadUsers(t)
  IN [c EXCEPT !.userObj = c.userObj \o new,
               !.users = [i \in 1..Len(new) |-> Len(c.userObj) + i]]

ReloadAuthors(c, t) == [c EXCEPT !.authors = LoadAuthors(t)]

\* _load_loans: every kept loan gets a Book and a User object of its own,
\* built by _get_book_by_id and _get_user_by_id (not the objects of
\* _books and _users)
ReloadLoans(c, t) ==
  LET ids == LoadableLoanIds(t)
      nb == Len(c.bookObj)
      nu == Len(c.userObj)
  IN [c EXCEPT
        !.bookObj = c.bookObj \o [i \in 1..Len(ids) |-> GetBookById(t, t.loans[ids[i]].book_id)[1]],
        !.userObj = c.userObj \o [i \in 1..Len(ids) |-> GetUserById(t, t.loans[ids[i]].user_id)[1]],
        !.loans = [i \in 1..Len(ids) |->
                     [id |-> ids[i], book |-> nb + i, user |-> nu + i,
                      issue_date |-> FromIsoFormat(t.loans[ids[i]].issue_date),
                      return_date |-> IF t.loans[ids[i]].return_date = <<>> THEN <<>>
                                      ELSE <<FromIsoFormat(t.loans[ids[i]].return_date[1])>>]]]

\* the distinct references of s in order of first occurrence, after acc
RECURSIVE DedupFrom(_, _)
DedupFrom(s, acc) ==
  IF s = <<>> THEN acc
  ELSE IF Head(s) \in Range(acc) THEN DedupFrom(Tail(s), acc)
  ELSE DedupFrom(Tail(s), Append(acc, Head(s)))

Dedup(order) == DedupFrom(order, <<>>)

\* the dense name of reference r: its place among the live references
NewName(live, r) == CHOOSE k \in 1..Len(live) : live[k] = r

\* Python object identity: keep the reachable objects, number them densely
Canon(c) ==
  LET uorder == c.users \o [i \in 1..Len(c.loans) |-> c.loans[i].user]
      ulive == Dedup(uorder)
      border == c.books \o [i \in 1..Len(c.loans) |-> c.loans[i].book]
                  \o Flatten([k \in 1..Len(ulive) |-> c.userObj[ulive[k]].borrowed])
      blive == Dedup(border)
      BN(r) == NewName(blive, r)
      UN(r) == NewName(ulive, r)
  IN [books |-> [i \in 1..Len(c.books) |-> BN(c.books[i])],
      users |-> [i \in 1..Len(c.users) |-> UN(c.users[i])],
      loans |-> [i \in 1..Len(c.loans) |->
                   [c.loans[i] EXCEPT !.book = BN(c.loans[i].book), !.user = UN(c.loans[i].user)]],
      authors |-> c.authors,
      bookObj |-> [k \in 1..Len(blive) |-> c.bookObj[blive[k]]],
      userObj |-> [k \in 1..Len(ulive) |->
                     [c.userObj[ulive[k]] EXCEPT
                        !.borrowed = [j \in 1..Len(c.userObj[ulive[k]].borrowed) |->
                                        BN(c.userObj[ulive[k]].borrowed[j])]]]]

Cache == [books |-> books, users |-> users, loans |-> loans, authors |-> authors,
          bookObj |-> bookObj, userObj |-> userObj]

EmptyCache == [books |-> <<>>, users |-> <<>>, loans |-> <<>>, authors |-> <<>>,
               bookObj |-> <<>>, userObj |-> <<>>]

(* ---------------------------- construction ----------------------------- *)
\* demo data without the two users
InitDemoDataNoUsers(c, t) ==
  IF \E a \in DOMAIN t.authors : t.authors[a].name \in {TolstoyName, DostoevskyName}
  THEN [store |-> t, cache |-> c]
  ELSE LET t1 == InsertAuthor(t, TolstoyName, "bio-Tolstoy")
           t2 == InsertAuthor(t1, DostoevskyName, "bio-Dostoevsky")
           t3 == InsertBook(t2, "War and Peace", t1.seq.authors, 1869, Available)
           t4 == InsertBook(t3, "Crime and Punishment", t2.seq.authors, 1866, Available)
       IN [store |-> t4, cache |-> ReloadAuthors(ReloadUsers(ReloadBooks(c, t4), t4), t4)]

\* a seeding that no UNIQUE constraint stops
InitDemoDataAgain(c, t) ==
  LET t1 == InsertAuthor(t, TolstoyName, "bio-Tolstoy")
      t2 == InsertAuthor(t1, DostoevskyName, "bio-Dostoevsky")
      t3 == InsertBook(t2, "War and Peace", t1.seq.authors, 1869, Available)
      t4 == InsertBook(t3, "Crime and Punishment", t2.seq.authors, 1866, Available)
      t5 == InsertUser(t4, "Ivan")
      t6 == InsertUser(t5, "Maria")
  IN [store |-> t6, cache |-> ReloadAuthors(ReloadUsers(ReloadBooks(c, t6), t6), t6)]

\* _init_demo_data: two authors, two books, two users in one transaction;
\* a UNIQUE violation on authors.name rolls everything back
InitDemoData(c, t) ==
  IF \E a \in DOMAIN t.authors : t.authors[a].name \in {TolstoyName, DostoevskyName}
  THEN [store |-> t, cache |-> c]
  ELSE LET t1 == InsertAuthor(t, TolstoyName, "bio-Tolstoy")
           t2 == InsertAuthor(t1, DostoevskyName, "bio-Dostoevsky")
           t3 == InsertBook(t2, "War and Peace", t1.seq.authors, 1869, Available)
           t4 == InsertBook(t3, "Crime and Punishment", t2.seq.authors, 1866, Available)
           t5 == InsertUser(t4, "Ivan")
           t6 == InsertUser(t5, "Maria")
       IN [store |-> t6, cache |-> ReloadAuthors(ReloadUsers(ReloadBooks(c, t6), t6), t6)]

\* LibrarySystem.__init__ on a store: load everything, seed when no book loaded
Construct(t) ==
  LET c == ReloadAuthors(ReloadLoans(ReloadUsers(ReloadBooks(EmptyCache, t), t), t), t)
      r == IF c.books = <<>> THEN InitDemoData(c, t) ELSE [store |-> t, cache |-> c]
  IN [store |-> r.store, cache |-> Canon(r.cache)]

\* the new object graph, renumbered once
SetCache(c) ==
  \E k \in {Canon(c)} :
    /\ books' = k.books
    /\ users' = k.users
    /\ loans' = k.loans
    /\ authors' = k.authors
    /\ bookObj' = k.bookObj
    /\ userObj' = k.userObj

CacheUnchanged == UNCHANGED <<books, users, loans, authors, bookObj, userObj>>

\* what the last call was and how it ended: its return value as success or
\* failure, whether it raised, and the reason issue_book logged for a refusal
Result(op, ok, raised, why) == [op |-> op, ok |-> ok, raised |-> raised, why |-> why]

EngineInit ==
  LET r == Construct(EmptyStore)
  IN /\ db = r.store
     /\ tx = r.store
     /\ books = r.cache.books
     /\ users = r.cache.users
     /\ loans = r.cache.loans
     /\ authors = r.cache.authors
     /\ bookObj = r.cache.bookObj
     /\ userObj = r.cache.userObj
     /\ clock = 1
     /\ steps = 0
     /\ last = Result("init", TRUE, FALSE, "")
     /\ librarians = LoadLibrarians(r.store)
     /\ ret = <<>>

\* no entity outside the engine
NoPerson == [kind |-> "none", access_level |-> 0, borrowed |-> <<>>]
NoLoan == [issue_date |-> 0, return_date |-> <<>>]
NoBook == [title |-> "", year |-> 1, status |-> Available]

Init ==
  /\ EngineInit
  /\ person = NoPerson
  /\ aLoan = NoLoan
  /\ aBook = NoBook
  /\ wallClock = 0

(* ------------------------------ inputs --------------------------------- *)
\* the ids the calls of Spec are made with: the two seeded books and users,
\* and the first two loans
BookIds == {1, 2}
UserIds == {1, 2}
LoanIds == {1, 2}
Titles == {"T"}
Years == {0, 1900}
AuthorNames == {TolstoyName, "X"}
Bios == {"b"}
Names == {"N"}
\* edit_book(title), edit_book(title, year <= 0), edit_book(year, author_bio)
EditArgs == {<<<<"T">>, <<>>, <<>>>>, <<<<"T">>, <<0>>, <<>>>>, <<<<>>, <<1900>>, <<"b">>>>}

(* ---------------------------- entity methods --------------------------- *)
\* borrow_book that never appends
BorrowBookNoAppend(uo, u, b) == uo

\* borrow_book that appends whatever the user holds
BorrowBookNoLimit(uo, u, b) == [uo EXCEPT ![u].borrowed = Append(@, b)]

\* User.borrow_book on the User object at reference u
BorrowBook(uo, u, b) ==
  IF Len(uo[u].borrowed) < MAX_BOOKS
  THEN [uo EXCEPT ![u].borrowed = Append(@, b)] ELSE uo

\* list.remove: drop the first occurrence
RemoveFirst(s, x) ==
  LET k == FirstIdx(s, LAMBDA y : y = x)
  IN IF k = 0 THEN s ELSE SubSeq(s, 1, k - 1) \o SubSeq(s, k + 1, Len(s))

\* User.return_book on the User object at reference u
UserReturnBook(uo, u, b) ==
  IF b \in Range(uo[u].borrowed)
  THEN [uo EXCEPT ![u].borrowed = RemoveFirst(@, b)] ELSE uo

(* ------------------------------ operations ----------------------------- *)
\* a lookup that never finds the author
FindAuthorIdsNone(t, author_name) == {}

\* SELECT id FROM authors WHERE name=?
FindAuthorIds(t, author_name) ==
  {a \in DOMAIN t.authors : t.authors[a].name = author_name}

\* a rollback that keeps the writes of the open transaction
RollbackKeeps(committed, pending) == pending

\* self._conn.rollback(): the connection sees the committed store again
Rollback(committed, pending) == committed

\* LibrarySystem.add_book
AddBook(title, author_name, author_bio, year) ==
  /\ LET found == FindAuthorIds(tx, author_name)
         t1 == IF found # {} THEN tx ELSE InsertAuthor(tx, author_name, author_bio)
         author_id == IF found # {} THEN CHOOSE a \in found : TRUE ELSE t1.seq.authors
         t2 == InsertBook(t1, title, author_id, year, Available)
     IN IF year > 0
        THEN /\ db' = t2
             /\ tx' = t2
             /\ SetCache(ReloadAuthors(ReloadBooks(Cache, t2), t2))
             /\ last' = Result("addBook", TRUE, FALSE, "")
        ELSE \* CHECK(year > 0) fails: IntegrityError, rollback
             /\ tx' = Rollback(db, t1)
             /\ UNCHANGED db
             /\ CacheUnchanged
             /\ last' = Result("addBook", FALSE, FALSE, "")
  /\ UNCHANGED clock

\* a delete that takes the author rows of the book along
DeleteBookRowCascade(t, book_id) ==
  [t EXCEPT !.books = Del(t.books, book_id),
            !.authors = [a \in {x \in DOMAIN t.authors :
                                  book_id \notin DOMAIN t.books \/ t.books[book_id].author_id # x}
                           |-> t.authors[a]]]

\* a delete of the book that takes the loan rows of the book with it
DeleteBookRowWithLoans(t, book_id) ==
  [t EXCEPT !.books = Del(t.books, book_id),
            !.loans = [l \in {x \in DOMAIN t.loans : t.loans[x].book_id # book_id}
                         |-> t.loans[l]]]

\* DELETE FROM books WHERE id=?
DeleteBookRow(t, book_id) == [t EXCEPT !.books = Del(t.books, book_id)]

\* LibrarySystem.remove_book
RemoveBook(book_id) ==
  /\ LET t1 == DeleteBookRow(tx, book_id)
     IN /\ db' = t1
        /\ tx' = t1
        /\ SetCache(ReloadBooks(Cache, t1))
  /\ last' = Result("removeBook", TRUE, FALSE, "")
  /\ UNCHANGED clock

\* LibrarySystem.edit_book
EditBook(book_id, title, year, author_bio) ==
  /\ LET t1 == IF title # <<>> THEN UpdateBookTitle(tx, book_id, title[1]) ELSE tx
         t2 == IF year # <<>> THEN UpdateBookYear(t1, book_id, year[1]) ELSE t1
         t3 == IF author_bio # <<>> THEN UpdateAuthorBioOfBook(t2, book_id, author_bio[1]) ELSE t2
     IN IF year # <<>> /\ ~(year[1] > 0)
        THEN \* ValueError leaves the method: no commit, no rollback, no reload
             /\ tx' = t1
             /\ UNCHANGED db
             /\ CacheUnchanged
             /\ last' = Result("editBook", FALSE, TRUE, "")
        ELSE /\ db' = t3
             /\ tx' = t3
             /\ SetCache(ReloadBooks(Cache, t3))
             /\ last' = Result("editBook", TRUE, FALSE, "")
  /\ UNCHANGED clock

\* LibrarySystem.register_user
RegisterUser(name) ==
  /\ LET t1 == InsertUser(tx, name)
         user_id == t1.seq.users
         c == [Cache EXCEPT
                 !.userObj = Append(userObj, [id |-> user_id, name |-> name, borrowed |-> <<>>]),
                 !.users = Append(users, Len(userObj) + 1)]
     IN /\ db' = t1
        /\ tx' = t1
        /\ SetCache(c)
        /\ last' = Result("registerUser", TRUE, FALSE, "")
  /\ UNCHANGED clock

\* LibrarySystem.edit_user
EditUser(user_id, name) ==
  /\ LET t1 == UpdateUserName(tx, user_id, name)
         ui == FirstIdx(users, LAMBDA r : userObj[r].id = user_id)
         c == IF ui # 0 THEN [Cache EXCEPT !.userObj[users[ui]].name = name] ELSE Cache
     IN /\ db' = t1
        /\ tx' = t1
        /\ SetCache(c)
  /\ last' = Result("editUser", TRUE, FALSE, "")
  /\ UNCHANGED clock

\* a delete that takes the loan rows of the user along
DeleteUserRowCascade(t, user_id) ==
  [t EXCEPT !.users = Del(t.users, user_id),
            !.loans = [l \in {x \in DOMAIN t.loans : t.loans[x].user_id # user_id}
                         |-> t.loans[l]]]

\* DELETE FROM users WHERE id=?
DeleteUserRow(t, user_id) == [t EXCEPT !.users = Del(t.users, user_id)]

\* LibrarySystem.delete_user
DeleteUser(user_id) ==
  /\ LET t1 == DeleteUserRow(tx, user_id)
         c == [Cache EXCEPT !.users = SelectSeq(users, LAMBDA r : userObj[r].id # user_id)]
     IN /\ db' = t1
        /\ tx' = t1
        /\ SetCache(c)
  /\ last' = Result("deleteUser", TRUE, FALSE, "")
  /\ UNCHANGED clock

\* issue_book without its availability check
IssueRefusalAnyStatus(user_id, book_id) ==
  LET ui == FirstIdx(users, LAMBDA r : userObj[r].id = user_id)
      bi == FirstIdx(books, LAMBDA r : bookObj[r].id = book_id)
  IN IF ui = 0 THEN "no user"
     ELSE IF bi = 0 THEN "no book"
     ELSE IF Len(userObj[users[ui]].borrowed) >= MAX_BOOKS THEN "limit"
     ELSE ""

\* issue_book with the limit compared by > instead of >=
IssueRefusalOffByOne(user_id, book_id) ==
  LET ui == FirstIdx(users, LAMBDA r : userObj[r].id = user_id)
      bi == FirstIdx(books, LAMBDA r : bookObj[r].id = book_id)
  IN IF ui = 0 THEN "no user"
     ELSE IF bi = 0 THEN "no book"
     ELSE IF bookObj[books[bi]].status # Available THEN "not available"
     ELSE IF Len(userObj[users[ui]].borrowed) > MAX_BOOKS THEN "limit"
     ELSE ""

\* the checks of issue_book, in the order of the code; "" when all pass
IssueRefusal(user_id, book_id) ==
  LET ui == FirstIdx(users, LAMBDA r : userObj[r].id = user_id)
      bi == FirstIdx(books, LAMBDA r : bookObj[r].id = book_id)
  IN IF ui = 0 THEN "no user"
     ELSE IF bi = 0 THEN "no book"
     ELSE IF bookObj[books[bi]].status # Available THEN "not available"
     ELSE IF Len(userObj[users[ui]].borrowed) >= MAX_BOOKS THEN "limit"
     ELSE ""

\* a lastrowid that the UPDATE statement resets
LastRowIdReset(inserted, updated) == 0

\* cursor.lastrowid read after the INSERT INTO loans and the UPDATE books: the
\* rowid of the inserted loan row, an UPDATE leaves it alone
LastRowId(inserted, updated) == inserted.seq.loans

\* LibrarySystem.issue_book
IssueBook(user_id, book_id) ==
  IF IssueRefusal(user_id, book_id) # ""
  THEN /\ last' = Result("issueBook", FALSE, FALSE, IssueRefusal(user_id, book_id))
       /\ UNCHANGED <<db, tx, clock>>
       /\ CacheUnchanged
  ELSE /\ LET u == users[FirstIdx(users, LAMBDA r : userObj[r].id = user_id)]
              b == books[FirstIdx(books, LAMBDA r : bookObj[r].id = book_id)]
              now == clock
              t1 == InsertLoan(tx, book_id, user_id, IsoFormat(now))
              t2 == UpdateBookStatus(t1, book_id, OnLoan)
              loan_id == LastRowId(t1, t2)
              loan == [id |-> loan_id, book |-> b, user |-> u,
                       issue_date |-> now, return_date |-> <<>>]
              c == [Cache EXCEPT !.bookObj[b].status = OnLoan,
                                 !.userObj = BorrowBook(userObj, u, b),
                                 !.loans = Append(loans, loan)]
          IN /\ db' = t2
             /\ tx' = t2
             /\ SetCache(c)
             /\ last' = Result("issueBook", TRUE, FALSE, "")
       /\ clock' = clock + 1

\* the check of return_book: the loan is not in _loans or has a return date
ReturnRefusedOnlyMissing(loan_id) ==
  FirstIdx(loans, LAMBDA l : l.id = loan_id) = 0

\* a check that also refuses a loan whose book row or user row is gone
ReturnRefusedOrphan(loan_id) ==
  LET li == FirstIdx(loans, LAMBDA l : l.id = loan_id)
  IN \/ li = 0
     \/ loans[li].return_date # <<>>
     \/ bookObj[loans[li].book].id \notin DOMAIN tx.books
     \/ userObj[loans[li].user].id \notin DOMAIN tx.users

ReturnRefused(loan_id) ==
  LET li == FirstIdx(loans, LAMBDA l : l.id = loan_id)
  IN li = 0 \/ loans[li].return_date # <<>>

\* LibrarySystem.return_book
ReturnBook(loan_id) ==
  LET li == FirstIdx(loans, LAMBDA l : l.id = loan_id)
  IN IF ReturnRefused(loan_id)
     THEN /\ last' = Result("returnBook", FALSE, FALSE, "")
          /\ UNCHANGED <<db, tx, clock>>
          /\ CacheUnchanged
     ELSE /\ LET loan == loans[li]
                 now == clock
                 t1 == UpdateLoanReturn(tx, loan_id, IsoFormat(now))
                 t2 == UpdateBookStatus(t1, bookObj[loan.book].id, Available)
                 c == [Cache EXCEPT !.loans[li].return_date = <<now>>,
                                    !.bookObj[loan.book].status = Available,
                                    !.userObj = UserReturnBook(userObj, loan.user, loan.book)]
             IN /\ db' = t2
                /\ tx' = t2
                /\ SetCache(c)
          /\ last' = Result("returnBook", TRUE, FALSE, "")
          /\ clock' = clock + 1

\* LibrarySystem.close followed by LibrarySystem(db_name) on the same file:
\* closing drops the uncommitted transaction, the new engine loads the store
Restart ==
  LET r == Construct(db)
  IN /\ db' = r.store
     /\ tx' = r.store
     /\ SetCache(r.cache)
     /\ librarians' = LoadLibrarians(db)
     /\ last' = Result("restart", TRUE, FALSE, "")
     /\ UNCHANGED clock

\* an engine call touches nothing outside the engine; only construction
\* assigns _librarians
Outside == UNCHANGED <<ret, person, aLoan, aBook, wallClock>>
Quiet == Outside /\ UNCHANGED librarians

\* one more engine call of a run of Spec
Count ==
  /\ steps < MaxOps
  /\ steps' = steps + 1

\* every operation of the engine, on every id and input of the small sets,
\* in runs of at most MaxOps calls
Next ==
  \/ \E title \in Titles, author_name \in AuthorNames, author_bio \in Bios, year \in Years :
        AddBook(title, author_name, author_bio, year) /\ Count /\ Quiet
  \/ \E book_id \in BookIds : RemoveBook(book_id) /\ Count /\ Quiet
  \/ \E book_id \in BookIds, a \in EditArgs : EditBook(book_id, a[1], a[2], a[3]) /\ Count /\ Quiet
  \/ \E name \in Names : RegisterUser(name) /\ Count /\ Quiet
  \/ \E user_id \in UserIds, name \in Names : EditUser(user_id, name) /\ Count /\ Quiet
  \/ \E user_id \in UserIds : DeleteUser(user_id) /\ Count /\ Quiet
  \/ \E user_id \in UserIds, book_id \in BookIds : IssueBook(user_id, book_id) /\ Count /\ Quiet
  \/ \E loan_id \in LoanIds : ReturnBook(loan_id) /\ Count /\ Quiet
  \/ Restart /\ Count /\ Outside

Spec == Init /\ [][Next]_vars

\* one borrower taken to the limit of MAX_BOOKS and over restarts: user 1
\* (and the unregistered id 3) borrows from up to MaxBorrowerBooks books and
\* returns none
BorrowerUserIds == {1, 3}
BorrowerBookIds == 1..MaxBorrowerBooks

NextBorrower ==
  \/ /\ tx.seq.books < MaxBorrowerBooks
     /\ AddBook("T", "X", "b", 1900)
     /\ UNCHANGED steps /\ Quiet
  \/ \E user_id \in BorrowerUserIds, book_id \in BorrowerBookIds :
        /\ IssueRefusal(user_id, book_id) = "" => tx.seq.loans < MaxBorrowerLoans
        /\ IssueBook(user_id, book_id)
        /\ UNCHANGED steps /\ Quiet
  \/ Restart /\ UNCHANGED steps /\ Outside

SpecBorrower == Init /\ [][NextBorrower]_vars

(* ------------------------- the entity classes -------------------------- *)
EngineVars == <<db, tx, books, users, loans, authors, bookObj, userObj, clock, steps, librarians>>

\* timedelta(days=d), in seconds
TimeDelta(days) == days * SecondsPerDay

\* is_overdue that compares with >=
IsOverdueFromDueDate(l, t) ==
  IF l.return_date = <<>> THEN t >= l.issue_date + TimeDelta(LOAN_DAYS) ELSE FALSE

\* Loan.is_overdue, with datetime.now() = t
IsOverdue(l, t) ==
  IF l.return_date = <<>> THEN t > l.issue_date + TimeDelta(LOAN_DAYS) ELSE FALSE

\* a call of aLoan.is_overdue()
CallIsOverdue ==
  /\ ret' = <<IsOverdue(aLoan, wallClock)>>
  /\ last' = Result("isOverdue", TRUE, FALSE, "")
  /\ UNCHANGED <<EngineVars, person, aLoan, aBook, wallClock>>

\* Loan.return_book(datetime.now())
CallLoanReturn ==
  /\ aLoan' = [aLoan EXCEPT !.return_date = <<wallClock>>]
  /\ last' = Result("Loan.returnBook", TRUE, FALSE, "")
  /\ UNCHANGED <<EngineVars, person, aBook, ret, wallClock>>

\* a second passes, up to MaxSlack seconds after the due date
Tick ==
  /\ wallClock < aLoan.issue_date + TimeDelta(LOAN_DAYS) + MaxSlack
  /\ wallClock' = wallClock + 1
  /\ UNCHANGED <<EngineVars, person, aLoan, aBook, ret, last>>

\* a Loan issued at one of the first seconds, looked at from MaxSlack
\* seconds before its due date on
InitOverdue ==
  /\ EngineInit
  /\ person = NoPerson
  /\ aLoan \in {[issue_date |-> i, return_date |-> <<>>] : i \in 0..MaxIssue}
  /\ aBook = NoBook
  /\ wallClock = aLoan.issue_date + TimeDelta(LOAN_DAYS) - MaxSlack

NextOverdue == CallIsOverdue \/ CallLoanReturn \/ Tick

SpecOverdue == InitOverdue /\ [][NextOverdue]_vars

\* timedelta.days of a difference of two datetimes, given in seconds
Days(seconds) == seconds \div SecondsPerDay

\* the label of the return screen: overdue when the whole days since the
\* issue are more than 14
OverdueLabel(l, t) == Days(t - l.issue_date) > 14

\* LibraryApp.show_return_book.return_book on an open loan: the engine's
\* return_book closes the loan, then the label is computed; ret is the label
ReturnScreenReturn ==
  /\ aLoan.return_date = <<>>
  /\ aLoan' = [aLoan EXCEPT !.return_date = <<wallClock>>]
  /\ ret' = <<OverdueLabel(aLoan, wallClock)>>
  /\ last' = Result("returnScreen", TRUE, FALSE, "")
  /\ UNCHANGED <<EngineVars, person, aBook, wallClock>>

\* an open Loan issued at one of the first seconds, looked at around 13, 14
\* and 15 days after its issue
InitReturnScreen ==
  /\ EngineInit
  /\ person = NoPerson
  /\ aBook = NoBook
  /\ aLoan \in {[issue_date |-> i, return_date |-> <<>>] : i \in 0..MaxIssue}
  /\ wallClock \in {aLoan.issue_date + TimeDelta(d) + s :
                      d \in (LOAN_DAYS - 1)..(LOAN_DAYS + 1), s \in (0 - MaxSlack)..MaxSlack}

NextReturnScreen == CallIsOverdue \/ ReturnScreenReturn

SpecReturnScreen == InitReturnScreen /\ [][NextReturnScreen]_vars

\* the years a caller passes to Book.set_year
YearInputs == (-1)..MaxYear
BookTitles == {"T", "U"}

\* a set_year without the check
SetYearUnchecked(b, year) == [b EXCEPT !.year = year]

\* Book.set_year(year): the book afterwards, and whether ValueError is raised
SetYear(b, year) == IF year > 0 THEN [b EXCEPT !.year = year] ELSE b
SetYearRaises(year) == ~(year > 0)

\* aBook.set_year(year)
BookSetYear(year) ==
  /\ aBook' = SetYear(aBook, year)
  /\ last' = Result("setYear", ~SetYearRaises(year), SetYearRaises(year), "")
  /\ UNCHANGED <<EngineVars, ret, person, aLoan, wallClock>>

\* aBook.set_title(title)
BookSetTitle(title) ==
  /\ aBook' = [aBook EXCEPT !.title = title]
  /\ last' = Result("setTitle", TRUE, FALSE, "")
  /\ UNCHANGED <<EngineVars, ret, person, aLoan, wallClock>>

\* aBook.set_status(status)
BookSetStatus(status) ==
  /\ aBook' = [aBook EXCEPT !.status = status]
  /\ last' = Result("setStatus", TRUE, FALSE, "")
  /\ UNCHANGED <<EngineVars, ret, person, aLoan, wallClock>>

\* a Book made with a positive year
InitBook ==
  /\ EngineInit
  /\ person = NoPerson
  /\ aLoan = NoLoan
  /\ aBook \in {[title |-> "T", year |-> y, status |-> Available] : y \in 1..MaxYear}
  /\ wallClock = 0

NextBook ==
  \/ \E year \in YearInputs : BookSetYear(year)
  \/ \E title \in BookTitles : BookSetTitle(title)
  \/ \E status \in {Available, OnLoan} : BookSetStatus(status)

SpecBook == InitBook /\ [][NextBook]_vars

\* the Book objects handed to a Person outside the engine
BookTokens == 1..MaxTokens

\* what User.borrow_book and User.return_book return
BorrowBookReturns(uo, u, b) == Len(uo[u].borrowed) < MAX_BOOKS
UserReturnBookReturns(uo, u, b) == b \in Range(uo[u].borrowed)

\* a borrow_book of the librarian without a limit
LibrarianBorrowBookNoLimit(p, b) == [p EXCEPT !.borrowed = Append(@, b)]

\* Librarian.borrow_book and what it returns
LibrarianBorrowBook(p, b) ==
  IF Len(p.borrowed) < MAX_BOOKS_LIBRARIAN THEN [p EXCEPT !.borrowed = Append(@, b)] ELSE p
LibrarianBorrowBookReturns(p, b) == Len(p.borrowed) < MAX_BOOKS_LIBRARIAN

\* person.borrow_book(b)
PersonBorrow(b) ==
  /\ person' = IF person.kind = "user" THEN BorrowBook(<<person>>, 1, b)[1]
               ELSE LibrarianBorrowBook(person, b)
  /\ last' = Result("borrow",
                    IF person.kind = "user" THEN BorrowBookReturns(<<person>>, 1, b)
                    ELSE LibrarianBorrowBookReturns(person, b), FALSE, "")
  /\ UNCHANGED <<EngineVars, ret, aLoan, aBook, wallClock>>

\* person.return_book(b): Librarian and Person define no return_book, the
\* call on a Librarian raises AttributeError
PersonGiveBack(b) ==
  /\ IF person.kind = "user"
     THEN /\ person' = UserReturnBook(<<person>>, 1, b)[1]
          /\ last' = Result("giveBack", UserReturnBookReturns(<<person>>, 1, b), FALSE, "")
     ELSE /\ person' = person
          /\ last' = Result("giveBack", FALSE, TRUE, "")
  /\ UNCHANGED <<EngineVars, ret, aLoan, aBook, wallClock>>

\* a new User or a new Librarian, holding nothing
InitPerson ==
  /\ EngineInit
  /\ person \in {[kind |-> k, access_level |-> 1, borrowed |-> <<>>] : k \in {"user", "librarian"}}
  /\ aLoan = NoLoan
  /\ aBook = NoBook
  /\ wallClock = 0

NextPerson ==
  \/ \E b \in BookTokens : PersonBorrow(b)
  \/ \E b \in BookTokens : PersonGiveBack(b)

SpecPerson == InitPerson /\ [][NextPerson]_vars

(* ------------------------ what the callers see ------------------------- *)
\* the Book object get_books() returns for an id, as <<>> or <<book>>
CachedBook(book_id) ==
  LET i == FirstIdx(books, LAMBDA r : bookObj[r].id = book_id)
  IN IF i = 0 THEN <<>> ELSE <<bookObj[books[i]]>>

\* the User object get_users() returns for an id, as <<>> or <<user>>
CachedUser(user_id) ==
  LET i == FirstIdx(users, LAMBDA r : userObj[r].id = user_id)
  IN IF i = 0 THEN <<>> ELSE <<userObj[users[i]]>>

\* a get_active_loans() that returns every loan
GetActiveLoansAll == loans

\* get_active_loans(): the loans of _loans without a return date
GetActiveLoans == SelectSeq(loans, LAMBDA l : l.return_date = <<>>)

\* the open loan rows of a store on a book, and of a user
OpenLoanRows(t, book_id) ==
  {l \in DOMAIN t.loans : t.loans[l].book_id = book_id /\ t.loans[l].return_date = <<>>}
OpenLoanRowsOfUser(t, user_id) ==
  {l \in DOMAIN t.loans : t.loans[l].user_id = user_id /\ t.loans[l].return_date = <<>>}

\* the open loans of get_loans() on a book, and of a user (positions in _loans)
OpenCachedLoans(book_id) ==
  {i \in 1..Len(loans) : bookObj[loans[i].book].id = book_id /\ loans[i].return_date = <<>>}
OpenCachedLoansOfUser(user_id) ==
  {i \in 1..Len(loans) : userObj[loans[i].user].id = user_id /\ loans[i].return_date = <<>>}

AllBookIds == 1..db.seq.books
AllUserIds == 1..db.seq.users
AllLoanIds == 1..db.seq.loans

(* ------------------- librarians and the staff desk --------------------- *)
LibrarianIds == {1, 2}
LibrarianNames == {"L", "M"}
AccessLevels == {0, 1}

\* (title, author_id, year) as a caller hands them to Librarian.edit_book
LibrarianEditArgs ==
  {<<<<"T">>, <<>>, <<>>>>, <<<<"T">>, <<0>>, <<>>>>, <<<<>>, <<>>, <<1900>>>>}

\* INSERT OR IGNORE INTO librarians: the row is skipped when the id is taken
\* or when CHECK(access_level > 0) fails
InsertLibrarianOrIgnore(t, librarian) ==
  IF librarian.id \in DOMAIN t.librarians \/ ~(librarian.access_level > 0)
  THEN t
  ELSE [t EXCEPT !.librarians = Put(t.librarians, librarian.id, librarian)]

\* register_librarian(librarian), the librarian being an object the caller
\* has just made: it is not yet in _librarians
RegisterLibrarian(librarian) ==
  /\ LET t1 == InsertLibrarianOrIgnore(tx, librarian)
     IN /\ db' = t1
        /\ tx' = t1
  /\ librarians' = Append(librarians, librarian)
  /\ last' = Result("registerLibrarian", TRUE, FALSE, "")
  /\ CacheUnchanged
  /\ UNCHANGED <<clock, ret, person, aLoan, aBook, wallClock>>

\* a lookup that finds a librarian under every id
SelectLibrarianAny(t, librarian_id) ==
  <<[id |-> librarian_id, name |-> "L", access_level |-> 1]>>

\* SELECT id, name, access_level FROM librarians WHERE id=?, as <<>> or <<row>>
SelectLibrarian(t, librarian_id) ==
  IF librarian_id \in DOMAIN t.librarians
  THEN <<[id |-> t.librarians[librarian_id].id,
          name |-> t.librarians[librarian_id].name,
          access_level |-> t.librarians[librarian_id].access_level]>>
  ELSE <<>>

\* authenticate_librarian(librarian_id); ret is <<>> for None
AuthenticateLibrarian(librarian_id) ==
  /\ ret' = SelectLibrarian(tx, librarian_id)
  /\ last' = Result("authenticateLibrarian", TRUE, FALSE, "")
  /\ CacheUnchanged
  /\ UNCHANGED <<db, tx, clock, librarians, person, aLoan, aBook, wallClock>>

\* the access check of the Librarian pass-throughs
HasAccess(access_level) == access_level >= 1

\* a pass-through called by a librarian without access: returns False
PassThroughDenied(op) ==
  /\ last' = Result(op, FALSE, FALSE, "")
  /\ CacheUnchanged
  /\ UNCHANGED <<db, tx, clock>>

\* Librarian.add_book(library_system, book): with access it calls
\* library_system.add_book(book), which takes (title, author_name,
\* author_bio, year): the call raises TypeError before add_book runs
LibrarianAddBook(access_level, title, author_name, author_bio, year) ==
  IF HasAccess(access_level)
  THEN /\ last' = Result("Librarian.addBook", FALSE, TRUE, "TypeError")
       /\ CacheUnchanged
       /\ UNCHANGED <<db, tx, clock>>
  ELSE PassThroughDenied("Librarian.addBook")

\* Librarian.remove_book(library_system, book_id)
LibrarianRemoveBook(access_level, book_id) ==
  IF HasAccess(access_level)
  THEN RemoveBook(book_id)
  ELSE PassThroughDenied("Librarian.removeBook")

\* Librarian.edit_book(library_system, book_id, title, author_id, year): with
\* access it calls library_system.edit_book(book_id, title, author_id, year),
\* whose parameters are (book_id, title, year, author_bio); the bio column is
\* TEXT, a number bound to it is stored as its decimal text
LibrarianEditBook(access_level, book_id, title, author_id, year) ==
  IF HasAccess(access_level)
  THEN EditBook(book_id, title, author_id,
                IF year = <<>> THEN <<>> ELSE <<ToString(year[1])>>)
  ELSE PassThroughDenied("Librarian.editBook")

\* a call of get_active_loans(); ret is the ids of the loans returned
GetActiveLoansCall ==
  /\ ret' = [i \in 1..Len(GetActiveLoans) |-> GetActiveLoans[i].id]
  /\ last' = Result("getActiveLoans", TRUE, FALSE, "")
  /\ CacheUnchanged
  /\ UNCHANGED <<db, tx, clock, librarians, person, aLoan, aBook, wallClock>>

CountStaff ==
  /\ steps < MaxStaffOps
  /\ steps' = steps + 1

NextStaff ==
  \/ \E id \in LibrarianIds, name \in LibrarianNames, access_level \in AccessLevels :
        RegisterLibrarian([id |-> id, name |-> name, access_level |-> access_level]) /\ CountStaff
  \/ \E librarian_id \in LibrarianIds : AuthenticateLibrarian(librarian_id) /\ CountStaff
  \/ \E access_level \in AccessLevels, title \in Titles, author_bio \in Bios :
        LibrarianAddBook(access_level, title, TolstoyName, author_bio, 1900) /\ CountStaff /\ Quiet
  \/ \E access_level \in AccessLevels, book_id \in BookIds :
        LibrarianRemoveBook(access_level, book_id) /\ CountStaff /\ Quiet
  \/ \E access_level \in AccessLevels, book_id \in BookIds, a \in LibrarianEditArgs :
        LibrarianEditBook(access_level, book_id, a[1], a[2], a[3]) /\ CountStaff /\ Quiet
  \/ \E user_id \in UserIds, book_id \in BookIds : IssueBook(user_id, book_id) /\ CountStaff /\ Quiet
  \/ \E loan_id \in LoanIds : ReturnBook(loan_id) /\ CountStaff /\ Quiet
  \/ GetActiveLoansCall /\ CountStaff
  \/ Restart /\ CountStaff /\ Outside

SpecStaff == Init /\ [][NextStaff]_vars

(* ------------------ persistence errors in issue/return ----------------- *)
\* issue_book when sqlite3 raises an Error after the INSERT INTO loans was
\* executed: at the UPDATE books (pending is the insert) or at the commit
\* (pending is insert and update); SQLite may also have rolled the
\* transaction back itself when it raised.  The except clause logs and
\* returns None: no rollback, nothing of the cache is touched.
IssueBookFails(user_id, book_id) ==
  /\ IssueRefusal(user_id, book_id) = ""
  /\ LET t1 == InsertLoan(tx, book_id, user_id, IsoFormat(clock))
         t2 == UpdateBookStatus(t1, book_id, OnLoan)
     IN \E pending \in {t1, t2, db} : tx' = pending
  /\ last' = Result("issueBook", FALSE, FALSE, "PersistenceError")
  /\ clock' = clock + 1
  /\ CacheUnchanged
  /\ UNCHANGED db

\* return_book when sqlite3 raises an Error after the UPDATE loans was
\* executed; the except clause logs and returns False
ReturnBookFails(loan_id) ==
  /\ ~ReturnRefused(loan_id)
  /\ LET loan == loans[FirstIdx(loans, LAMBDA l : l.id = loan_id)]
         t1 == UpdateLoanReturn(tx, loan_id, IsoFormat(clock))
         t2 == UpdateBookStatus(t1, bookObj[loan.book].id, Available)
     IN \E pending \in {t1, t2, db} : tx' = pending
  /\ last' = Result("returnBook", FALSE, FALSE, "PersistenceError")
  /\ clock' = clock + 1
  /\ CacheUnchanged
  /\ UNCHANGED db

CountFaulty ==
  /\ steps < MaxFaultOps
  /\ steps' = steps + 1

NextFaulty ==
  \/ \E user_id \in UserIds, book_id \in BookIds : IssueBook(user_id, book_id) /\ CountFaulty /\ Quiet
  \/ \E user_id \in UserIds, book_id \in BookIds : IssueBookFails(user_id, book_id) /\ CountFaulty /\ Quiet
  \/ \E loan_id \in LoanIds : ReturnBook(loan_id) /\ CountFaulty /\ Quiet
  \/ \E loan_id \in LoanIds : ReturnBookFails(loan_id) /\ CountFaulty /\ Quiet
  \/ \E name \in Names : RegisterUser(name) /\ CountFaulty /\ Quiet
  \/ Restart /\ CountFaulty /\ Outside

SpecFaulty == Init /\ [][NextFaulty]_vars

(* ------------------------------ claims --------------------------------- *)

\* C1: single active loan per book: every book id is referenced by at most
\* one loan without a return date, among the loan rows of the store and among
\* the loans of get_loans(), in every reachable state.
SingleActiveLoanPerBook ==
  \A b \in AllBookIds :
    /\ Cardinality(OpenLoanRows(db, b)) <= 1
    /\ Cardinality(OpenLoanRows(tx, b)) <= 1
    /\ Cardinality(OpenCachedLoans(b)) <= 1

\* C1 witness: a book that was lent, returned and lent again: it has a closed
\* and an open loan, in the store and in get_loans().
SingleActiveLoanWitness ==
  \E b \in AllBookIds :
    /\ Cardinality(OpenLoanRows(db, b)) = 1
    /\ Cardinality(OpenCachedLoans(b)) = 1
    /\ \E l \in DOMAIN db.loans : db.loans[l].book_id = b /\ db.loans[l].return_date # <<>>
    /\ \E i \in 1..Len(loans) : bookObj[loans[i].book].id = b /\ loans[i].return_date # <<>>

\* C2: capacity invariant: no user id has more than MAX_BOOKS loan rows
\* without a return date, in every reachable state (restarts included).
CapacityInvariant ==
  \A u \in AllUserIds : Cardinality(OpenLoanRowsOfUser(db, u)) <= MAX_BOOKS

\* C3: availability in the engine's view: every book of get_books() is
\* Available if and only if no loan of get_loans() without a return date
\* references its id.
AvailabilityInView ==
  \A i \in 1..Len(books) :
    bookObj[books[i]].status = Available <=> OpenCachedLoans(bookObj[books[i]].id) = {}

\* C4: availability in storage: every books row is on-loan if and only if an
\* open loans row references it, in the committed store and in the
\* connection's view of it; the two writes of issue_book and of return_book
\* are never durable one without the other.
AvailabilityInStorage ==
  /\ \A b \in DOMAIN db.books : db.books[b].status = OnLoan <=> OpenLoanRows(db, b) # {}
  /\ \A b \in DOMAIN tx.books : tx.books[b].status = OnLoan <=> OpenLoanRows(tx, b) # {}

\* C4 witness: after a successful return_book the store holds a returned
\* book (Available, closed loan row) next to a book that is still on loan.
AvailabilityInStorageWitness ==
  /\ last.op = "returnBook" /\ last.ok
  /\ \E b \in DOMAIN db.books :
       /\ db.books[b].status = Available
       /\ \E l \in DOMAIN db.loans : db.loans[l].book_id = b /\ db.loans[l].return_date # <<>>
  /\ \E b \in DOMAIN db.books : db.books[b].status = OnLoan /\ OpenLoanRows(db, b) # {}

\* C5: cache consistency: after every call get_books() has exactly the book
\* rows with the same title, year and status, get_users() exactly the user
\* rows, get_loans() exactly the loan rows with the same return dates, and
\* the cached authors have the bio of the author rows.
CacheEqualsStore ==
  /\ {[id |-> bookObj[books[i]].id, title |-> bookObj[books[i]].title,
       year |-> bookObj[books[i]].year, status |-> bookObj[books[i]].status] : i \in 1..Len(books)}
       = {[id |-> b, title |-> db.books[b].title, year |-> db.books[b].year,
           status |-> db.books[b].status] : b \in DOMAIN db.books}
  /\ {[id |-> userObj[users[i]].id, name |-> userObj[users[i]].name] : i \in 1..Len(users)}
       = {[id |-> u, name |-> db.users[u].name] : u \in DOMAIN db.users}
  /\ {[id |-> loans[i].id, returned |-> loans[i].return_date # <<>>] : i \in 1..Len(loans)}
       = {[id |-> l, returned |-> db.loans[l].return_date # <<>>] : l \in DOMAIN db.loans}
  /\ {[id |-> authors[i].id, bio |-> authors[i].bio] : i \in 1..Len(authors)}
       = {[id |-> a, bio |-> db.authors[a].bio] : a \in DOMAIN db.authors}

\* what the claims call the preconditions of issue_book
IssuePre(u, b) ==
  /\ CachedUser(u) # <<>>
  /\ CachedBook(b) # <<>>
  /\ CachedBook(b)[1].status = Available
  /\ Len(CachedUser(u)[1].borrowed) < 3

\* the ids the calls of the specifications are made with
CalledUserIds == UserIds \cup BorrowerUserIds
CalledBookIds == BookIds \cup BorrowerBookIds

CacheVars == <<books, users, loans, authors, bookObj, userObj>>

\* the result of a successful issue_book(u, b)
IssuePost(u, b) ==
  /\ last'.op = "issueBook" /\ last'.ok /\ ~last'.raised
  /\ \E n \in DOMAIN db'.loans :
       /\ DOMAIN db'.loans = DOMAIN db.loans \cup {n}
       /\ n \notin DOMAIN db.loans
       /\ \A l \in DOMAIN db.loans : db'.loans[l] = db.loans[l]
       /\ db'.loans[n].book_id = b /\ db'.loans[n].user_id = u
       /\ db'.loans[n].return_date = <<>>
       /\ db'.loans[n].issue_date = IsoFormat(clock)
       /\ Len(loans') = Len(loans) + 1
       /\ loans'[Len(loans')].id = n
       /\ loans'[Len(loans')].issue_date = clock
       /\ bookObj'[loans'[Len(loans')].book].id = b
       /\ userObj'[loans'[Len(loans')].user].id = u
       /\ \E i \in 1..Len(GetActiveLoans') : GetActiveLoans'[i].id = n
  /\ b \in DOMAIN db'.books /\ db'.books[b].status = OnLoan
  /\ CachedBook(b)' # <<>> /\ CachedBook(b)'[1].status = OnLoan
  /\ CachedUser(u)' # <<>>
  /\ Len(CachedUser(u)'[1].borrowed) = Len(CachedUser(u)[1].borrowed) + 1

\* C6: issue_book success: when the user is in get_users(), the book is in
\* get_books() with status Available and the user holds fewer than 3 books,
\* issue_book returns a Loan of that book and user without a return date,
\* adds exactly one open loan row, sets the book OnLoan in the store and in
\* get_books(), raises the held count by one, and the loan is in
\* get_active_loans().
IssueBookSucceeds ==
  [][\A u \in CalledUserIds, b \in CalledBookIds :
       IssuePre(u, b) /\ IssueBook(u, b) => IssuePost(u, b)]_vars

\* C6 witness: issue_book has just succeeded for a user who already held a
\* book: the user holds two books, both on loan.
IssueBookSucceedsWitness ==
  /\ last.op = "issueBook" /\ last.ok
  /\ \E i \in 1..Len(users) :
       /\ Len(userObj[users[i]].borrowed) = 2
       /\ Cardinality(OpenCachedLoansOfUser(userObj[users[i]].id)) = 2
       /\ \A j \in 1..2 : bookObj[userObj[users[i]].borrowed[j]].status = OnLoan

\* the reason the first failing precondition gives, in the order (a)..(d)
FirstFailure(u, b) ==
  IF CachedUser(u) = <<>> THEN "no user"
  ELSE IF CachedBook(b) = <<>> THEN "no book"
  ELSE IF CachedBook(b)[1].status # Available THEN "not available"
  ELSE "limit"

\* C7: issue_book precondition failure: with an unknown user id, an unknown
\* book id, a book that is not Available, or a user who already holds 3
\* books, issue_book returns the absent result without raising, for the
\* first failing check in that order, and changes neither the store nor the
\* cache.
IssueBookRefused ==
  [][\A u \in CalledUserIds, b \in CalledBookIds :
       ~IssuePre(u, b) /\ IssueBook(u, b) =>
         /\ last'.op = "issueBook" /\ ~last'.ok /\ ~last'.raised
         /\ last'.why = FirstFailure(u, b)
         /\ UNCHANGED <<db, tx, CacheVars>>]_vars

\* C7 witness: issue_book has just been refused for the limit: the user
\* holds 3 books and a book of get_books() is Available.
IssueBookRefusedWitness ==
  /\ last.op = "issueBook" /\ ~last.ok /\ last.why = "limit"
  /\ \E i \in 1..Len(users) : Len(userObj[users[i]].borrowed) = 3
  /\ \E i \in 1..Len(books) : bookObj[books[i]].status = Available

\* the open loan of get_loans() with this id, as <<>> or <<loan>>
OpenCachedLoan(l) ==
  LET i == FirstIdx(loans, LAMBDA x : x.id = l)
  IN IF i # 0 /\ loans[i].return_date = <<>> THEN <<loans[i]>> ELSE <<>>

\* C8: return_book success: a return_book call on an open loan returns true,
\* the loan then has a return date, the book of the loan is Available in the
\* store and in get_books(), and the borrower's held count in get_users() is
\* one lower than before.
ReturnBookSucceeds ==
  [][\A l \in LoanIds, i \in 1..Len(loans) :
       (loans[i].id = l /\ loans[i].return_date = <<>> /\ ReturnBook(l)) =>
         /\ last'.op = "returnBook" /\ last'.ok
         /\ db'.loans[l].return_date # <<>>
         /\ \A b \in {bookObj[loans[i].book].id} :
              /\ b \in DOMAIN db'.books => db'.books[b].status = Available
              /\ CachedBook(b)' # <<>> => CachedBook(b)'[1].status = Available
         /\ \A u \in {userObj[loans[i].user].id} :
              (CachedUser(u) # <<>> /\ CachedUser(u)' # <<>>) =>
                Len(CachedUser(u)'[1].borrowed) = Len(CachedUser(u)[1].borrowed) - 1]_vars

BookStateMachine ==
  [][last'.op # "restart" =>
       \A b \in AllBookIds :
         (/\ CachedBook(b) # <<>>
          /\ CachedBook(b)' # <<>>
          /\ CachedBook(b)'[1].status # CachedBook(b)[1].status) =>
           \/ /\ CachedBook(b)[1].status = Available /\ CachedBook(b)'[1].status = OnLoan
              /\ last'.op = "issueBook" /\ last'.ok
              /\ OpenCachedLoans(b) = {} /\ OpenCachedLoans(b)' # {}
           \/ /\ CachedBook(b)[1].status = OnLoan /\ CachedBook(b)'[1].status = Available
              /\ last'.op = "returnBook" /\ last'.ok
              /\ OpenCachedLoans(b) # {} /\ OpenCachedLoans(b)' = {}]_vars

\* the return date get_loans() shows for a loan id, as <<>> (no such loan,
\* or open) or <<date>>
CachedReturnDate(l) ==
  LET i == FirstIdx(loans, LAMBDA x : x.id = l)
  IN IF i = 0 THEN <<>> ELSE loans[i].return_date

InGetLoans(l) == FirstIdx(loans, LAMBDA x : x.id = l) # 0

\* C11: loan state machine: no call deletes a loan row; once a loan has a
\* return date, no later call (restart included) clears or changes it, in
\* the store or in get_loans(); and a loan goes from open to closed, in the
\* store or in get_loans(), only by a successful return_book on its id.
LoanStateMachine ==
  [][/\ \A l \in DOMAIN db.loans :
          /\ l \in DOMAIN db'.loans
          /\ db.loans[l].return_date # <<>> =>
               db'.loans[l].return_date = db.loans[l].return_date
          /\ (db.loans[l].return_date = <<>> /\ db'.loans[l].return_date # <<>>) =>
               (ReturnBook(l) /\ last'.op = "returnBook" /\ last'.ok)
     /\ \A l \in AllLoanIds :
          (InGetLoans(l) /\ InGetLoans(l)') =>
            /\ CachedReturnDate(l) # <<>> => CachedReturnDate(l)' = CachedReturnDate(l)
            /\ (CachedReturnDate(l) = <<>> /\ CachedReturnDate(l)' # <<>>) =>
                 (ReturnBook(l) /\ last'.op = "returnBook" /\ last'.ok)
            /\ CachedReturnDate(l)' # <<>> =>
                 db'.loans[l].return_date = <<IsoFormat(CachedReturnDate(l)'[1])>>]_vars

\* C11 witness: a returned loan has been loaded again by a restart: it is
\* closed in the store and in get_loans(), with the date of the return.
LoanStateMachineWitness ==
  /\ last.op = "restart"
  /\ \E l \in DOMAIN db.loans :
       /\ db.loans[l].return_date # <<>>
       /\ CachedReturnDate(l) # <<>>
       /\ db.loans[l].return_date[1] = IsoFormat(CachedReturnDate(l)[1])

\* the ids of the books a user of get_users() holds, in order
HeldBookIds(user_id) ==
  [j \in 1..Len(CachedUser(user_id)[1].borrowed) |->
     bookObj[CachedUser(user_id)[1].borrowed[j]].id]

\* C12: held-set reconstruction: in every reachable state, also right after a
\* restart on a store with open loans, each user of get_users() holds exactly
\* the books of the open loan rows with that user's id, and as many books as
\* there are such rows.
HeldSetMatchesOpenLoans ==
  \A i \in 1..Len(users) :
    LET u == userObj[users[i]].id
    IN /\ Range(HeldBookIds(u)) = {db.loans[l].book_id : l \in OpenLoanRowsOfUser(db, u)}
       /\ Len(HeldBookIds(u)) = Cardinality(OpenLoanRowsOfUser(db, u))

\* what get_books(), get_users() and get_loans() show: ids, titles or names,
\* years, statuses and dates
BookView ==
  {[id |-> bookObj[books[i]].id, title |-> bookObj[books[i]].title,
    year |-> bookObj[books[i]].year, status |-> bookObj[books[i]].status] : i \in 1..Len(books)}
UserView ==
  {[id |-> userObj[users[i]].id, name |-> userObj[users[i]].name] : i \in 1..Len(users)}
LoanView ==
  {[id |-> loans[i].id, book_id |-> bookObj[loans[i].book].id,
    user_id |-> userObj[loans[i].user].id, issue_date |-> IsoFormat(loans[i].issue_date),
    return_date |-> IF loans[i].return_date = <<>> THEN <<>>
                    ELSE <<IsoFormat(loans[i].return_date[1])>>] : i \in 1..Len(loans)}

\* the same of the rows of a store
BookRows(t) ==
  {[id |-> b, title |-> t.books[b].title, year |-> t.books[b].year,
    status |-> t.books[b].status] : b \in DOMAIN t.books}
UserRows(t) == {[id |-> u, name |-> t.users[u].name] : u \in DOMAIN t.users}
LoanRows(t) ==
  {[id |-> l, book_id |-> t.loans[l].book_id, user_id |-> t.loans[l].user_id,
    issue_date |-> t.loans[l].issue_date, return_date |-> t.loans[l].return_date] :
     l \in DOMAIN t.loans}

\* C13: round trip: after any sequence of calls, an engine constructed on the
\* same store shows exactly the persisted books, users and loans (same ids,
\* titles or names, years, statuses, dates), and every book, user and loan
\* the previous engine showed reappears unchanged.
RoundTrip ==
  [][Restart =>
       /\ BookView' = BookRows(db) /\ UserView' = UserRows(db) /\ LoanView' = LoanRows(db)
       /\ BookView \subseteq BookView'
       /\ UserView \subseteq UserView'
       /\ LoanView \subseteq LoanView']_vars

\* C14: edit_book validation atomicity: edit_book with a title and a year
\* <= 0 fails with a validation error and its title update is never
\* committed: right after the call the stored title is unchanged, and the
\* stored title of a book changes later only by a successful edit_book of
\* that book that passes the new title.
EditBookValidationAtomic ==
  [][/\ \A b \in BookIds, a \in EditArgs :
          (a[2] # <<>> /\ a[2][1] <= 0 /\ EditBook(b, a[1], a[2], a[3])) =>
            /\ last'.op = "editBook" /\ last'.raised
            /\ db' = db
     /\ \A b \in DOMAIN db.books :
          (b \in DOMAIN db'.books /\ db'.books[b].title # db.books[b].title) =>
            /\ last'.op = "editBook" /\ last'.ok
            /\ \E a \in EditArgs :
                 /\ a[1] # <<>> /\ db'.books[b].title = a[1][1]
                 /\ EditBook(b, a[1], a[2], a[3])]_vars

\* C15: add_book failure atomicity: add_book with a year <= 0 (rejected by
\* the CHECK on books.year) returns false without raising and leaves the
\* committed store, the connection's view of it and the cache as they were
\* in the committed state: no book row, no author row for a new author name
\* and no id handed out.
AddBookFailureAtomic ==
  [][\A title \in Titles, author_name \in AuthorNames, author_bio \in Bios, year \in Years :
       (year <= 0 /\ AddBook(title, author_name, author_bio, year)) =>
         /\ last'.op = "addBook" /\ ~last'.ok /\ ~last'.raised
         /\ UNCHANGED <<db, CacheVars>>
         /\ tx' = db
         /\ FindAuthorIds(db, author_name) = {} =>
              (FindAuthorIds(db', author_name) = {} /\ FindAuthorIds(tx', author_name) = {})]_vars

\* C15 witness: add_book has just failed for an author name that no author
\* row has.
AddBookFailureAtomicWitness ==
  /\ last.op = "addBook" /\ ~last.ok
  /\ FindAuthorIds(db, "X") = {} /\ FindAuthorIds(tx, "X") = {}
  /\ db.seq.authors = 2

\* C16: author reuse: the authors table has at most one row per name; an
\* add_book whose author name exists creates no author row, changes no
\* author row (the bio stays, whatever bio is passed) and, when it succeeds,
\* gives the new book the id of the existing author.
AuthorReuse ==
  [][/\ \A a1, a2 \in DOMAIN db'.authors :
          db'.authors[a1].name = db'.authors[a2].name => a1 = a2
     /\ \A title \in Titles, author_name \in AuthorNames, author_bio \in Bios, year \in Years :
          (FindAuthorIds(db, author_name) # {} /\ AddBook(title, author_name, author_bio, year)) =>
            /\ db'.authors = db.authors
            /\ tx'.authors = db.authors
            /\ last'.ok =>
                 /\ db'.seq.books \in DOMAIN db'.books
                 /\ db'.seq.books \notin DOMAIN db.books
                 /\ db'.books[db'.seq.books].author_id \in FindAuthorIds(db, author_name)
                 /\ \E i \in 1..Len(books') :
                      /\ bookObj'[books'[i]].id = db'.seq.books
                      /\ bookObj'[books'[i]].author = db.authors[db'.books[db'.seq.books].author_id]]_vars

\* C16 witness: add_book has succeeded twice with the author name "X": two
\* book rows carry the id of the one author row named "X".
AuthorReuseWitness ==
  /\ last.op = "addBook" /\ last.ok
  /\ Cardinality(FindAuthorIds(db, "X")) = 1
  /\ \E b1, b2 \in DOMAIN db.books :
       /\ b1 # b2
       /\ db.books[b1].author_id \in FindAuthorIds(db, "X")
       /\ db.books[b2].author_id \in FindAuthorIds(db, "X")

\* C17: loan referential integrity: in every reachable state, every loan
\* row's book id is the id of a book row and its user id the id of a user
\* row.
LoanReferentialIntegrity ==
  \A l \in DOMAIN db.loans :
    /\ db.loans[l].book_id \in DOMAIN db.books
    /\ db.loans[l].user_id \in DOMAIN db.users

\* C18: author persistence: no call deletes or renames an author row
\* (remove_book of an author's last book keeps the author); in every
\* reachable state every book row's author id is the id of an author row;
\* and a restart loads every book row into get_books().
AuthorPersistence ==
  [][/\ \A a \in DOMAIN db.authors :
          a \in DOMAIN db'.authors /\ db'.authors[a].name = db.authors[a].name
     /\ \A b \in DOMAIN db.books : db.books[b].author_id \in DOMAIN db.authors
     /\ \A b \in DOMAIN db'.books : db'.books[b].author_id \in DOMAIN db'.authors
     /\ Restart => {bookObj'[books'[i]].id : i \in 1..Len(books')} = DOMAIN db.books
     /\ Restart => Len(books') = Cardinality(DOMAIN db.books)]_vars

\* C18 witness: after a restart that followed the removal of an author's
\* only book, the author row is still there without a book row, and
\* get_books() has every book row.
AuthorPersistenceWitness ==
  /\ last.op = "restart"
  /\ \E a \in DOMAIN db.authors : \A b \in DOMAIN db.books : db.books[b].author_id # a
  /\ DOMAIN db.books # {}
  /\ {bookObj[books[i]].id : i \in 1..Len(books)} = DOMAIN db.books

\* the loan rows of a store whose book row or user row is gone
OrphanLoanRows(t) ==
  {l \in DOMAIN t.loans : t.loans[l].book_id \notin DOMAIN t.books
                            \/ t.loans[l].user_id \notin DOMAIN t.users}

\* C19: orphan tolerance on load: constructing an engine on a store with
\* loan rows whose book or user row is gone does not fail, and get_loans()
\* of the new engine has exactly the loan rows whose book id and user id
\* both resolve, once each, with the ids of the row.
OrphanTolerance ==
  [][Restart =>
       /\ last'.op = "restart" /\ last'.ok /\ ~last'.raised
       /\ {loans'[i].id : i \in 1..Len(loans')} = DOMAIN db.loans \ OrphanLoanRows(db)
       /\ Len(loans') = Cardinality(DOMAIN db.loans \ OrphanLoanRows(db))
       /\ \A i \in 1..Len(loans') :
            /\ bookObj'[loans'[i].book].id = db.loans[loans'[i].id].book_id
            /\ userObj'[loans'[i].user].id = db.loans[loans'[i].id].user_id]_vars

\* C19 witness: an engine has been constructed on a store with an orphaned
\* loan row next to a loan row that resolves: get_loans() has the second
\* and not the first.
OrphanToleranceWitness ==
  /\ last.op = "restart" /\ last.ok
  /\ OrphanLoanRows(db) # {}
  /\ DOMAIN db.loans \ OrphanLoanRows(db) # {}
  /\ {loans[i].id : i \in 1..Len(loans)} = DOMAIN db.loans \ OrphanLoanRows(db)

\* the held lists of get_users(), by user id, as book ids
HeldView == {<<userObj[users[i]].id, HeldBookIds(userObj[users[i]].id)>> : i \in 1..Len(users)}

\* C20: remove_book is unconditional: for a book that exists (a book row
\* that get_books() shows), remove_book returns true and the book is then
\* absent from the store and from get_books(), with or without an open loan
\* on it; the call changes no loan (row or get_loans(), so an open loan stays
\* in get_active_loans()), no held list, no author and no other book (row or
\* get_books()).
RemoveBookUnconditional ==
  [][\A b \in BookIds :
       (b \in DOMAIN db.books /\ CachedBook(b) # <<>> /\ RemoveBook(b)) =>
         /\ last'.op = "removeBook" /\ last'.ok /\ ~last'.raised
         /\ b \notin DOMAIN db'.books
         /\ CachedBook(b)' = <<>>
         /\ db'.loans = db.loans
         /\ LoanView' = LoanView
         /\ [i \in 1..Len(GetActiveLoans') |-> GetActiveLoans'[i].id]
              = [i \in 1..Len(GetActiveLoans) |-> GetActiveLoans[i].id]
         /\ HeldView' = HeldView
         /\ db'.authors = db.authors
         /\ authors' = authors
         /\ \A o \in DOMAIN db.books \ {b} :
              o \in DOMAIN db'.books /\ db'.books[o] = db.books[o]
         /\ \A o \in AllBookIds \ {b} : CachedBook(o)' = CachedBook(o)]_vars

\* C21: delete_user leaves loans alone: delete_user of a user with open
\* loans returns true and removes the user from the store and from
\* get_users(); every loan of that user stays as it was (row unchanged,
\* still open in get_loans() and in get_active_loans()), and every book of
\* such a loan keeps its status, on-loan, in the store and in get_books().
DeleteUserLeavesLoans ==
  [][\A u \in UserIds :
       (/\ u \in DOMAIN db.users
        /\ CachedUser(u) # <<>>
        /\ OpenLoanRowsOfUser(db, u) # {}
        /\ DeleteUser(u)) =>
         /\ last'.op = "deleteUser" /\ last'.ok /\ ~last'.raised
         /\ u \notin DOMAIN db'.users
         /\ CachedUser(u)' = <<>>
         /\ db'.loans = db.loans
         /\ LoanView' = LoanView
         /\ \A i \in OpenCachedLoansOfUser(u) :
              \E j \in 1..Len(GetActiveLoans') : GetActiveLoans'[j].id = loans[i].id
         /\ \A l \in OpenLoanRowsOfUser(db, u) :
              \A b \in {db.loans[l].book_id} :
                /\ b \in DOMAIN db.books =>
                     (b \in DOMAIN db'.books /\ db'.books[b].status = OnLoan)
                /\ CachedBook(b) # <<>> =>
                     (CachedBook(b)' # <<>> /\ CachedBook(b)'[1].status = OnLoan)]_vars

\* C21 witness: delete_user has removed a user whose loan is still open:
\* the loan row has a user id without a user row, is in get_active_loans(),
\* and its book is on loan.
DeleteUserLeavesLoansWitness ==
  /\ last.op = "deleteUser" /\ last.ok
  /\ \E l \in DOMAIN db.loans :
       /\ db.loans[l].return_date = <<>>
       /\ db.loans[l].user_id \notin DOMAIN db.users
       /\ CachedUser(db.loans[l].user_id) = <<>>
       /\ \E j \in 1..Len(GetActiveLoans) : GetActiveLoans[j].id = l
       /\ db.loans[l].book_id \in DOMAIN db.books
       /\ db.books[db.loans[l].book_id].status = OnLoan

\* the failure outcome of a call: the failure value, no exception, store
\* and cache as before
NormalFailure(op) ==
  /\ last'.op = op /\ ~last'.ok /\ ~last'.raised
  /\ UNCHANGED <<db, CacheVars>>

\* C22: not found is a normal failure: return_book on an unknown loan id,
\* issue_book with an unknown user or book id, edit_book or remove_book on
\* an unknown book id, edit_user or delete_user on an unknown user id return
\* the failure value, do not raise, and leave store and cache unchanged.
NotFoundIsFailure ==
  [][/\ \A l \in LoanIds :
          (l \notin DOMAIN db.loans /\ ReturnBook(l)) => NormalFailure("returnBook")
     /\ \A u \in UserIds, b \in BookIds :
          ((u \notin DOMAIN db.users \/ b \notin DOMAIN db.books) /\ IssueBook(u, b)) =>
            NormalFailure("issueBook")
     /\ \A b \in BookIds, a \in EditArgs :
          (b \notin DOMAIN db.books /\ EditBook(b, a[1], a[2], a[3])) => NormalFailure("editBook")
     /\ \A b \in BookIds :
          (b \notin DOMAIN db.books /\ RemoveBook(b)) => NormalFailure("removeBook")
     /\ \A u \in UserIds, n \in Names :
          (u \notin DOMAIN db.users /\ EditUser(u, n)) => NormalFailure("editUser")
     /\ \A u \in UserIds :
          (u \notin DOMAIN db.users /\ DeleteUser(u)) => NormalFailure("deleteUser")]_vars

\* the state an engine constructed on a new, empty store is in
SeededOnce ==
  /\ Cardinality(DOMAIN db.authors) = 2 /\ Len(authors) = 2
  /\ {authors[i].id : i \in 1..2} = DOMAIN db.authors
  /\ Cardinality(DOMAIN db.books) = 2 /\ Len(books) = 2
  /\ {bookObj[books[i]].id : i \in 1..2} = DOMAIN db.books
  /\ \A b \in DOMAIN db.books : db.books[b].status = Available
  /\ \A i \in 1..2 : bookObj[books[i]].status = Available
  /\ Cardinality(DOMAIN db.users) = 2 /\ Len(users) = 2
  /\ {userObj[users[i]].id : i \in 1..2} = DOMAIN db.users
  /\ DOMAIN db.loans = {} /\ loans = <<>>
  /\ tx = db

\* C23: first-run bootstrap: an engine constructed on a store that is empty
\* and was never seeded has exactly two authors, two books with status
\* Available and two users, in the store and in the cache, and no loans; an
\* engine constructed on a store with at least one book adds no rows.
FirstRunBootstrap ==
  /\ SeededOnce
  /\ [][(Restart /\ DOMAIN db.books # {}) => db' = db]_vars

\* C23 witness: an engine has been constructed on a store with one book
\* left: the store still has one book.
FirstRunBootstrapWitness ==
  /\ last.op = "restart"
  /\ Cardinality(DOMAIN db.books) = 1
  /\ Len(books) = 1

\* books and loans, rows and views, are as before
BooksAndLoansUnchanged ==
  /\ BookRows(db') = BookRows(db) /\ BookView' = BookView
  /\ LoanRows(db') = LoanRows(db) /\ LoanView' = LoanView

\* C29: user CRUD with cache sync: register_user returns a user that is then
\* in the store and in get_users() with that name; edit_user of an existing
\* user returns true and the user then has the new name in both; delete_user
\* of an existing user returns true and the user is then in neither; each
\* of the three leaves every other user, every book and every loan as it
\* was.
UserCrud ==
  [][/\ \A n \in Names :
          RegisterUser(n) =>
            /\ last'.op = "registerUser" /\ last'.ok
            /\ \E u \in DOMAIN db'.users \ DOMAIN db.users :
                 /\ UserRows(db') = UserRows(db) \cup {[id |-> u, name |-> n]}
                 /\ UserView' = UserView \cup {[id |-> u, name |-> n]}
                 /\ Len(users') = Len(users) + 1
            /\ BooksAndLoansUnchanged
     /\ \A u \in UserIds, n \in Names :
          (u \in DOMAIN db.users /\ CachedUser(u) # <<>> /\ EditUser(u, n)) =>
            /\ last'.op = "editUser" /\ last'.ok
            /\ UserRows(db') = {r \in UserRows(db) : r.id # u} \cup {[id |-> u, name |-> n]}
            /\ UserView' = {r \in UserView : r.id # u} \cup {[id |-> u, name |-> n]}
            /\ BooksAndLoansUnchanged
     /\ \A u \in UserIds :
          (u \in DOMAIN db.users /\ CachedUser(u) # <<>> /\ DeleteUser(u)) =>
            /\ last'.op = "deleteUser" /\ last'.ok
            /\ UserRows(db') = {r \in UserRows(db) : r.id # u}
            /\ UserView' = {r \in UserView : r.id # u}
            /\ BooksAndLoansUnchanged]_vars

\* C24: overdue boundary: with time in whole seconds, is_overdue() is true
\* exactly when the loan has no return date and now is strictly later than
\* the issue date + 14 days: 14 days + 1 s after the issue true, 14 days
\* exactly false, 14 days - 1 s false, and false at every age for a loan
\* with a return date.
OverdueBoundary ==
  [][CallIsOverdue =>
       /\ ret' = <<aLoan.return_date = <<>> /\ wallClock - aLoan.issue_date > 1209600>>
       /\ (aLoan.return_date = <<>> /\ wallClock - aLoan.issue_date = 1209601) => ret' = <<TRUE>>
       /\ wallClock - aLoan.issue_date = 1209600 => ret' = <<FALSE>>
       /\ wallClock - aLoan.issue_date = 1209599 => ret' = <<FALSE>>
       /\ aLoan.return_date # <<>> => ret' = <<FALSE>>]_vars

\* C24 witness: is_overdue() has been called on an open loan 14 days and
\* 1 s after its issue and has returned true.
OverdueBoundaryWitness ==
  /\ last.op = "isOverdue"
  /\ aLoan.return_date = <<>>
  /\ wallClock - aLoan.issue_date = 1209601
  /\ ret = <<TRUE>>

\* how many times book b occurs in the list s
Occurrences(s, b) == Cardinality({i \in 1..Len(s) : s[i] = b})

\* C25: on a User alone, borrow(b) returns true and appends b iff fewer than
\* 3 books are held, otherwise it returns false and the held list is as it
\* was; giveBack(b) returns true and takes one occurrence of b out of the held
\* list iff b is held, otherwise it returns false and the held list is as it
\* was; neither call raises, and the held count stays between 0 and 3.
UserBorrowGiveBack ==
  /\ (person.kind = "user" => Len(person.borrowed) \in 0..3)
  /\ [][\A b \in BookTokens :
          /\ (person.kind = "user" /\ PersonBorrow(b)) =>
               /\ ~last'.raised
               /\ last'.ok <=> Len(person.borrowed) < 3
               /\ last'.ok => person'.borrowed = Append(person.borrowed, b)
               /\ ~last'.ok => person'.borrowed = person.borrowed
          /\ (person.kind = "user" /\ PersonGiveBack(b)) =>
               /\ ~last'.raised
               /\ last'.ok <=> b \in Range(person.borrowed)
               /\ last'.ok =>
                    /\ Len(person'.borrowed) = Len(person.borrowed) - 1
                    /\ \A c \in BookTokens :
                         Occurrences(person'.borrowed, c) =
                           Occurrences(person.borrowed, c) - (IF c = b THEN 1 ELSE 0)
               /\ ~last'.ok => person'.borrowed = person.borrowed]_vars

\* a user holding 3 books was refused a fourth
UserBorrowGiveBackWitness ==
  /\ person.kind = "user"
  /\ Len(person.borrowed) = 3
  /\ last.op = "borrow"
  /\ ~last.ok

\* C26: a Librarian's borrow(b) returns true and appends iff fewer than 5
\* books are held, otherwise returns false and changes nothing; giveBack(b)
\* succeeds and removes b iff the librarian holds it; the held count never
\* exceeds 5.
LibrarianMirrorsUser ==
  /\ (person.kind = "librarian" => Len(person.borrowed) <= 5)
  /\ [][\A b \in BookTokens :
          /\ (person.kind = "librarian" /\ PersonBorrow(b)) =>
               /\ last'.ok <=> Len(person.borrowed) < 5
               /\ last'.ok => person'.borrowed = Append(person.borrowed, b)
               /\ ~last'.ok => person'.borrowed = person.borrowed
          /\ (person.kind = "librarian" /\ PersonGiveBack(b)) =>
               /\ last'.ok <=> b \in Range(person.borrowed)
               /\ last'.ok => Len(person'.borrowed) = Len(person.borrowed) - 1
               /\ ~last'.ok => person'.borrowed = person.borrowed]_vars

\* C27: the Librarian pass-throughs for add, remove and edit book return
\* false and leave the store and the cache as they were when the librarian's
\* access level is below 1; when it is at least 1 they return true and make
\* the change of the engine's operation called with the same arguments.
AccessGate ==
  [][\A access_level \in AccessLevels :
       /\ \A title \in Titles, author_bio \in Bios :
            LibrarianAddBook(access_level, title, TolstoyName, author_bio, 1900) =>
              IF access_level < 1
              THEN ~last'.ok /\ ~last'.raised /\ db' = db /\ tx' = tx /\ UNCHANGED CacheVars
              ELSE AddBook(title, TolstoyName, author_bio, 1900) /\ last'.ok
       /\ \A book_id \in BookIds :
            LibrarianRemoveBook(access_level, book_id) =>
              IF access_level < 1
              THEN ~last'.ok /\ ~last'.raised /\ db' = db /\ tx' = tx /\ UNCHANGED CacheVars
              ELSE RemoveBook(book_id) /\ last'.ok
       /\ \A book_id \in BookIds, a \in LibrarianEditArgs :
            LibrarianEditBook(access_level, book_id, a[1], a[2], a[3]) =>
              IF access_level < 1
              THEN ~last'.ok /\ ~last'.raised /\ db' = db /\ tx' = tx /\ UNCHANGED CacheVars
              ELSE EditBook(book_id, a[1], a[3], <<>>) /\ last'.ok]_vars

\* C28: authenticate_librarian(id) returns a librarian with that id and the
\* stored name and access level iff the store has a librarian row with that
\* id, and None otherwise; it changes neither the store nor the cache.
AuthenticateByRow ==
  [][\A librarian_id \in LibrarianIds :
       (last'.op = "authenticateLibrarian" /\ AuthenticateLibrarian(librarian_id)) =>
         /\ ret' # <<>> <=> librarian_id \in DOMAIN db.librarians
         /\ librarian_id \in DOMAIN db.librarians =>
              /\ ret'[1].id = librarian_id
              /\ ret'[1].name = db.librarians[librarian_id].name
              /\ ret'[1].access_level = db.librarians[librarian_id].access_level
         /\ db' = db
         /\ tx' = tx
         /\ librarians' = librarians
         /\ UNCHANGED CacheVars]_vars

\* C28 witness: a registered librarian has been authenticated; a second
\* registration under the same id had been ignored, the first name is stored
AuthenticateByRowWitness ==
  /\ last.op = "authenticateLibrarian"
  /\ ret # <<>>
  /\ Len(librarians) = 2
  /\ Cardinality(DOMAIN db.librarians) = 1

\* the ids of the loans get_loans() returns, in its order
GetLoansIds == [i \in 1..Len(loans) |-> loans[i].id]
ActiveLoanIds == {GetActiveLoans[i].id : i \in 1..Len(GetActiveLoans)}

SetYearValidates ==
  /\ aBook.year > 0
  /\ [][\A y \in YearInputs :
          BookSetYear(y) =>
            IF y <= 0
            THEN last'.raised /\ aBook'.year = aBook.year
            ELSE ~last'.raised /\ aBook'.year = y]_vars

\* C31 witness: set_year(0) has been refused on a book whose year and title
\* earlier calls had changed
SetYearValidatesWitness ==
  /\ last.op = "setYear"
  /\ last.raised
  /\ aBook.year = MaxYear
  /\ aBook.title = "U"

\* C32: when a persistence error occurs inside issue_book after the loan row
\* insert was executed, or inside return_book after the return-date update
\* was executed, the call returns its failure value and none of its writes
\* ever becomes durable: the store is as it was and the connection holds no
\* pending write that a later commit would make durable.
RollbackOnPersistenceError ==
  [][last'.why = "PersistenceError" =>
       /\ ~last'.ok
       /\ ~last'.raised
       /\ db' = db
       /\ tx' = db]_vars

\* C33: loans are never deleted: a loan row of the store stays in the store
\* with the same id, book id, user id and issue date through every later
\* call, remove_book of its book, delete_user of its user and restarts
\* included.
LoansNeverDeleted ==
  [][\A l \in DOMAIN db.loans :
       /\ l \in DOMAIN db'.loans
       /\ db'.loans[l].id = db.loans[l].id
       /\ db'.loans[l].book_id = db.loans[l].book_id
       /\ db'.loans[l].user_id = db.loans[l].user_id
       /\ db'.loans[l].issue_date = db.loans[l].issue_date]_vars

\* C33 witness: the book and the user of a loan row are both gone from the
\* store, the engine has been restarted, and the loan row is there
LoansNeverDeletedWitness ==
  /\ last.op = "restart"
  /\ \E l \in DOMAIN db.loans :
       /\ db.loans[l].id = l
       /\ db.loans[l].book_id \notin DOMAIN db.books
       /\ db.loans[l].user_id \notin DOMAIN db.users

\* C34: seeding happens at most once per store: the store of the first
\* engine is seeded, and no later construction of an engine adds an author,
\* book or user row, also when every book has been removed and the catalog
\* loads empty (the repeated seed attempt fails and is rolled back).
SeedAtMostOnce ==
  [][Restart =>
       /\ db'.authors = db.authors
       /\ db'.books = db.books
       /\ db'.users = db.users
       /\ db'.seq = db.seq]_vars

\* C34 witness: an engine was constructed on a store without any book row:
\* the store still has no book, get_books() is empty, the authors are there
SeedAtMostOnceWitness ==
  /\ last.op = "restart"
  /\ DOMAIN db.books = {}
  /\ books = <<>>
  /\ DOMAIN db.authors # {}

\* C35: every open loan stays returnable: in every state of an engine, a
\* return_book call on the id of a loan of get_active_loans() succeeds and
\* does not raise, also when the loan's book was removed or its user was
\* deleted in the meantime.
OpenLoanReturnable ==
  [][\A l \in LoanIds :
       (l \in ActiveLoanIds /\ last'.op = "returnBook" /\ ReturnBook(l)) =>
         /\ last'.ok
         /\ ~last'.raised
         /\ l \notin ActiveLoanIds'
         /\ db'.loans[l].return_date # <<>>]_vars

\* C35 witness: a loan was returned after its book had been removed and its
\* user deleted
OpenLoanReturnableWitness ==
  /\ last.op = "returnBook"
  /\ last.ok
  /\ \E l \in DOMAIN db.loans :
       /\ db.loans[l].return_date # <<>>
       /\ db.loans[l].book_id \notin DOMAIN db.books
       /\ db.loans[l].user_id \notin DOMAIN db.users

\* C36: ids are never reused: the ids of the books and users tables are at
\* most the table's AUTOINCREMENT counter, the counters never go down, and a
\* row that add_book or register_user adds gets an id above the counter,
\* that is above every id the table ever had; hence a loan row whose book or
\* user is gone never resolves to a book or user again, restarts included.
IdsNeverReused ==
  /\ \A b \in DOMAIN db.books : b <= db.seq.books
  /\ \A u \in DOMAIN db.users : u <= db.seq.users
  /\ [][/\ db'.seq.books >= db.seq.books
        /\ db'.seq.users >= db.seq.users
        /\ \A b \in DOMAIN db'.books \ DOMAIN db.books : b > db.seq.books
        /\ \A u \in DOMAIN db'.users \ DOMAIN db.users : u > db.seq.users
        /\ \A l \in DOMAIN db.loans :
             /\ db.loans[l].book_id \notin DOMAIN db.books =>
                  db.loans[l].book_id \notin DOMAIN db'.books
             /\ db.loans[l].user_id \notin DOMAIN db.users =>
                  db.loans[l].user_id \notin DOMAIN db'.users
        /\ \A l \in AllLoanIds :
             (InGetLoans(l) /\ InGetLoans(l)') =>
               /\ bookObj'[loans'[FirstIdx(loans', LAMBDA x : x.id = l)].book].id
                    = bookObj[loans[FirstIdx(loans, LAMBDA x : x.id = l)].book].id
               /\ userObj'[loans'[FirstIdx(loans', LAMBDA x : x.id = l)].user].id
                    = userObj[loans[FirstIdx(loans, LAMBDA x : x.id = l)].user].id]_vars

\* C36 witness: the book with the largest id was removed while on loan, a
\* book was added and got a larger id, and after a restart the loan row
\* still resolves to no book
IdsNeverReusedWitness ==
  /\ last.op = "restart"
  /\ \E l \in DOMAIN db.loans :
       /\ db.loans[l].book_id = 2
       /\ 2 \notin DOMAIN db.books
       /\ 3 \in DOMAIN db.books
       /\ ~InGetLoans(l)

\* C37: registered librarians can authenticate: after every sequence of
\* register_librarian calls, every librarian of get_librarians() has a row in
\* the store with the same id, name and access level (so authenticate
\* returns a librarian with those values), and get_librarians() holds at
\* most one librarian per id.
RegisteredCanAuthenticate ==
  /\ \A i \in 1..Len(librarians) :
       /\ librarians[i].id \in DOMAIN db.librarians
       /\ SelectLibrarian(tx, librarians[i].id) =
            <<[id |-> librarians[i].id, name |-> librarians[i].name,
               access_level |-> librarians[i].access_level]>>
  /\ \A i, j \in 1..Len(librarians) : librarians[i].id = librarians[j].id => i = j

\* the status each book has, in a store and in get_books()
StatusRows(t) == {<<b, t.books[b].status>> : b \in DOMAIN t.books}
StatusView == {<<bookObj[books[i]].id, bookObj[books[i]].status>> : i \in 1..Len(books)}

\* C38: a successful edit_book with an author bio sets the bio of the one
\* author of that book, every book of get_books() with that author shows the
\* new bio, no other author's bio changes, and no book's status, no loan and
\* no user changes, in the store and in the cache; when the book id does not
\* exist no author changes.
EditBookBio ==
  [][\A book_id \in BookIds, a \in EditArgs :
       (a[3] # <<>> /\ last'.op = "editBook" /\ last'.ok /\ EditBook(book_id, a[1], a[2], a[3])) =>
         /\ DOMAIN db'.authors = DOMAIN db.authors
         /\ book_id \notin DOMAIN db.books => db'.authors = db.authors
         /\ book_id \in DOMAIN db.books =>
              /\ db'.authors[db.books[book_id].author_id].bio = a[3][1]
              /\ \A x \in DOMAIN db.authors \ {db.books[book_id].author_id} :
                   db'.authors[x] = db.authors[x]
              /\ \A i \in 1..Len(books') :
                   bookObj'[books'[i]].author.id = db.books[book_id].author_id =>
                     bookObj'[books'[i]].author.bio = a[3][1]
              /\ \A i \in 1..Len(books') :
                   bookObj'[books'[i]].author.id # db.books[book_id].author_id =>
                     bookObj'[books'[i]].author.bio = db.authors[bookObj'[books'[i]].author.id].bio
         /\ StatusRows(db') = StatusRows(db)
         /\ StatusView' = StatusView
         /\ LoanRows(db') = LoanRows(db)
         /\ LoanView' = LoanView
         /\ UserRows(db') = UserRows(db)
         /\ UserView' = UserView
         /\ HeldView' = HeldView]_vars

\* C39: the overdue label of the return screen agrees with the loan's own
\* overdue flag: for every open loan and every current time in whole seconds,
\* the screen reports the return as overdue iff Loan.is_overdue() was true
\* for the loan just before the return.
OverdueLabelAgrees ==
  [][(last'.op = "returnScreen" /\ ReturnScreenReturn) =>
       (ret' = <<TRUE>> <=> wallClock - aLoan.issue_date > 1209600)]_vars

\* C40: loan ids are unique and match storage: the Loan a successful
\* issue_book appends carries the id of the one loan row this call inserted,
\* the ids of the loans of get_loans() are pairwise distinct, and a loan
\* issued later has a strictly larger id than every loan issued before it.
LoanIdsMatchStorage ==
  /\ \A i, j \in 1..Len(loans) : loans[i].id = loans[j].id => i = j
  /\ [][\A user_id \in UserIds, book_id \in BookIds :
          (last'.op = "issueBook" /\ last'.ok /\ IssueBook(user_id, book_id)) =>
            /\ Len(loans') = Len(loans) + 1
            /\ DOMAIN db'.loans \ DOMAIN db.loans = {loans'[Len(loans')].id}
            /\ db'.loans[loans'[Len(loans')].id].book_id = book_id
            /\ db'.loans[loans'[Len(loans')].id].user_id = user_id
            /\ \A l \in DOMAIN db.loans : l < loans'[Len(loans')].id
            /\ \A i \in 1..Len(loans) : loans[i].id < loans'[Len(loans')].id]_vars

\* C40 witness: a second loan was issued after the first one was returned:
\* get_loans() has the loans 1 and 2 in this order, as the store has
LoanIdsMatchStorageWitness ==
  /\ last.op = "issueBook"
  /\ last.ok
  /\ Len(loans) = 2
  /\ loans[1].id = 1
  /\ loans[2].id = 2
  /\ loans[1].return_date # <<>>
  /\ DOMAIN db.loans = {1, 2}

====
